---- MODULE Spec2Model ----
(***************************************************************************)
(* The asynchronous job lifecycle of the PDF-to-Word frontend:             *)
(*   - App.tsx: the files list (the Job Registry), the polling effect,     *)
(*     navigation, upload, delete, logout;                                 *)
(*   - hooks/useAutoCleanup.ts: the eviction sweeper;                      *)
(*   - the backend (not part of the frontend sources) as the collaborator  *)
(*     of section 6 of the specification.                                  *)
(* One action is one JavaScript callback run to completion: an event       *)
(* handler, a timer callback, or the continuation of an await.  Values a   *)
(* callback reads from its closure are the values of the render that       *)
(* created the closure; they are stored with the pending call.             *)
(***************************************************************************)
EXTENDS Integers, Sequences, FiniteSets, TLC

\* ------------------------------------------------------------- bounds
NumJobs == 2        \* job ids the backend can hand out
MaxTicks == 1       \* the clock takes MaxTicks steps of ClockStep ms
MaxProgress == 1    \* progress levels 0..MaxProgress
MaxCalls == 2       \* asynchronous calls (uploads, status fetches, sweeps, deletes)
                    \* awaited at once
SerialCalls == 1    \* the same, in SpecSerial
MaxBatch == 2       \* files in one batch upload
MaxBacks == 2       \* goBack calls in a row that are counted

\* ---------------------------------------------------------- constants
RetentionMs == 2 * 24 * 60 * 60 * 1000  \* the retention window
ClockStep == RetentionMs                \* the clock's granularity
maxRetries == 3     \* the retry ceiling
NULL == 0           \* null of currentFileId / processingFileId

JobIds == 1..NumJobs
Views == {"upload", "editor", "batch", "stored", "processing"}
Terminal == {"completed", "error"}

VARIABLES
  now,                \* wall clock (Date.now()), in ms since the start
  backend,            \* backend[id]: the backend's job record
  isAuthenticated, isInitialLoading, initializing,
  currentView, previousView,
  files,              \* the Registry: sequence of ProcessedFile
  currentFileId, processingFileId,
  processingFileIds,  \* ids that have a poller (interval) in the polling effect
  uploads,            \* single uploads whose response has not been handled
  fetches,            \* api.getFileStatus calls of pollFile in flight, in issue order
  navTimers,          \* pending setTimeout(..., 2000) of pollFile, by job id
  sweeps,             \* running checkExpiredFiles calls
  deletes,            \* running deleteFile calls
  batches,            \* batch uploads whose awaits have not all resumed
  toasts,             \* jobs with a 'Processing complete' toast that has a View action
  retryCount,         \* observer: consecutive failed status fetches of each job
  backs,              \* observer: goBack calls since the navigation state last changed
                      \* otherwise
  hookFileId,         \* useFilePolling: the fileId prop of the latest render
  intervalRef,        \* useFilePolling: intervalRef.current, named by the fileId of the
                      \* effect that called setInterval
  isPollingRef,       \* useFilePolling: isPollingRef.current
  polls,              \* useFilePolling: api.getFileStatus calls of pollFileStatus in flight
  hookRetryCount,     \* useFilePolling: retryCount of the effect that ran last
  hookStopped         \* observer: that effect got a terminal status or gave up

vars == <<now, backend, isAuthenticated, isInitialLoading,
          initializing, currentView, previousView, files, currentFileId,
          processingFileId, processingFileIds, uploads, fetches, navTimers,
          sweeps, deletes, batches, toasts, retryCount, backs,
          hookFileId, intervalRef, isPollingRef, polls, hookRetryCount, hookStopped>>

env == <<now, backend>>
auth == <<isAuthenticated, isInitialLoading, initializing>>
nav == <<currentView, previousView>>
calls == <<uploads, fetches, navTimers, sweeps, deletes>>
obs == <<retryCount, backs>>
hook == <<hookFileId, intervalRef, isPollingRef, polls, hookRetryCount, hookStopped>>
app == <<now, auth, nav, files, currentFileId, processingFileId, processingFileIds,
         calls, batches, toasts, obs>>

\* ------------------------------------------------------------ helpers
InFlight == Cardinality(uploads) + Len(fetches) + Len(sweeps) + Len(deletes) + Len(batches)
CanCall == InFlight < MaxCalls

\* observer: a callback other than goBack that changes the navigation state ends a
\* run of goBack calls
BacksEnd == backs' = IF nav' = nav THEN backs ELSE 0

\* observer: one more goBack call in a row
BacksMore == backs' = IF backs < MaxBacks THEN backs + 1 ELSE backs

Ids(fs) == {fs[i].id : i \in DOMAIN fs}
Find(fs, id) == fs[CHOOSE i \in DOMAIN fs : fs[i].id = id /\ \A j \in 1..(i-1) : fs[j].id # id]
Filter(fs, id) == SelectSeq(fs, LAMBDA f : f.id # id)
RemoveAt(s, i) == SubSeq(s, 1, i-1) \o SubSeq(s, i+1, Len(s))

\* ------------------------------------------------------------ backend
NoJob == [st |-> "none", progress |-> 0, expiry |-> 0]
Gone == [st |-> "deleted", progress |-> 0, expiry |-> 0]

\* createJob: status processing, progress 0, expiry fixed at creation
BackendCreate(id) == [st |-> "processing", progress |-> 0, expiry |-> now + RetentionMs]

\* what GET /files/{id} answers: the current record, or an error
Pending == [k |-> "pending", status |-> "processing", progress |-> 0, expiry_date |-> 0]
Failure == [k |-> "fail", status |-> "processing", progress |-> 0, expiry_date |-> 0]
Snapshot(id) ==
  IF backend[id].st \in {"none", "deleted"} THEN Failure
  ELSE [k |-> "ok", status |-> backend[id].st, progress |-> backend[id].progress,
        expiry_date |-> backend[id].expiry]

\* the job makes progress or ends
BackendAdvance(id) ==
  /\ backend[id].st = "processing"
  /\ \/ /\ backend[id].progress < MaxProgress
        /\ backend' = [backend EXCEPT ![id].progress = @ + 1]
     \/ backend' = [backend EXCEPT ![id].st = "completed", ![id].progress = MaxProgress]
     \/ backend' = [backend EXCEPT ![id].st = "error"]
  /\ UNCHANGED <<obs, now, auth, nav, files, currentFileId, processingFileId,
                 processingFileIds, calls>>
  /\ UNCHANGED <<batches, toasts>>
  /\ UNCHANGED hook

ClockTick ==
  /\ now < MaxTicks * ClockStep
  /\ now' = now + ClockStep
  /\ UNCHANGED <<obs, backend, auth, nav, files, currentFileId, processingFileId,
                 processingFileIds, calls>>
  /\ UNCHANGED <<batches, toasts>>
  /\ UNCHANGED hook

\* ---------------------------------------------------------------- App
convertApiFileToProcessedFile(id, apiFile) ==
  [id |-> id, status |-> apiFile.status, progress |-> apiFile.progress,
   expiryDate |-> apiFile.expiry_date]

\* a job of an earlier page load that the backend still holds
Stored == [st |-> "processing", progress |-> 0, expiry |-> RetentionMs]

\* the page has loaded; the backend holds the jobs 1..k of earlier page loads
Init ==
  /\ now = 0
  /\ \E k \in 0..NumJobs : backend = [id \in JobIds |-> IF id <= k THEN Stored ELSE NoJob]
  /\ isAuthenticated = FALSE
  /\ isInitialLoading = TRUE
  /\ initializing = FALSE
  /\ currentView = "upload"
  /\ previousView = "upload"
  /\ files = <<>>
  /\ currentFileId = NULL
  /\ processingFileId = NULL
  /\ processingFileIds = {}
  /\ uploads = {}
  /\ fetches = <<>>
  /\ navTimers = {}
  /\ sweeps = <<>>
  /\ deletes = <<>>
  /\ batches = <<>>
  /\ toasts = {}
  /\ retryCount = [id \in JobIds |-> 0]
  /\ backs = 0
  /\ hookFileId = NULL
  /\ intervalRef = NULL
  /\ isPollingRef = FALSE
  /\ polls = <<>>
  /\ hookRetryCount = 0
  /\ hookStopped = FALSE

\* the page is rendered and takes user input
Interactive == isAuthenticated /\ ~isInitialLoading
currentFile == IF currentFileId \in Ids(files) THEN currentFileId ELSE NULL

\* ---- authentication and initial load
Login ==
  /\ ~isAuthenticated
  /\ ~initializing
  /\ isAuthenticated' = TRUE
  /\ initializing' = TRUE
  /\ UNCHANGED <<obs, env, isInitialLoading, nav, files, currentFileId,
                 processingFileId, processingFileIds, calls>>
  /\ UNCHANGED <<batches, toasts>>
  /\ UNCHANGED hook

\* GET /files: every job the backend holds, in id order
AllFiles ==
  LET S == {id \in JobIds : backend[id].st \notin {"none", "deleted"}}
      F[n \in 0..NumJobs] ==
        IF n = 0 THEN <<>>
        ELSE IF n \in S THEN Append(F[n-1], convertApiFileToProcessedFile(n, Snapshot(n)))
        ELSE F[n-1]
  IN F[NumJobs]

\* initializeApp after its awaits, with the timer of its finally block (the loading
\* screen goes 1 s later; nothing else can run on that screen)
initializeApp(ok) ==
  /\ initializing
  /\ initializing' = FALSE
  /\ IF ok
       THEN /\ files' = AllFiles
            /\ processingFileIds' = {id \in JobIds : backend[id].st = "processing"}
       ELSE UNCHANGED <<files, processingFileIds>>
  /\ isInitialLoading' = FALSE
  /\ UNCHANGED <<obs, env, isAuthenticated, nav, currentFileId, processingFileId, calls>>
  /\ UNCHANGED <<batches, toasts>>
  /\ UNCHANGED hook

handleLogout ==
  /\ Interactive
  /\ \/ currentView \in {"upload", "batch", "stored"}
     \/ currentView = "editor" /\ currentFile # NULL
  /\ isAuthenticated' = FALSE
  /\ files' = <<>>
  /\ currentFileId' = NULL
  /\ currentView' = "upload"
  /\ UNCHANGED <<retryCount, env, isInitialLoading, initializing, previousView,
                 processingFileId, processingFileIds, calls>>
  /\ UNCHANGED <<batches, toasts>>
  /\ BacksEnd
  /\ UNCHANGED hook

\* ---- navigation
\* navigateTo run from a closure that read currentView = cv
navigateTo(cv, view) ==
  IF cv # view
    THEN previousView' = cv /\ currentView' = view
    ELSE UNCHANGED nav

\* variant of goBack that does not reset previousView
goBackKeepHistory ==
  /\ previousView' = previousView
  /\ currentView' = IF previousView # currentView THEN previousView ELSE "upload"

\* variant of goBack that does nothing once the history has been reset to upload
goBackStays ==
  IF previousView = "upload"
    THEN UNCHANGED nav
    ELSE /\ previousView' = "upload"
         /\ currentView' = previousView

goBack ==
  /\ previousView' = "upload"
  /\ currentView' = IF previousView # currentView THEN previousView ELSE "upload"

\* UploadPage / BatchProcessingPage: onViewStored
onViewStored ==
  /\ Interactive
  /\ currentView \in {"upload", "batch"}
  /\ navigateTo(currentView, "stored")
  /\ UNCHANGED <<retryCount, env, auth, files, currentFileId, processingFileId,
                 processingFileIds, calls>>
  /\ UNCHANGED <<batches, toasts>>
  /\ BacksEnd
  /\ UNCHANGED hook

\* BatchProcessingPage / StoredFilesPage: onBack
onBack ==
  /\ Interactive
  /\ currentView \in {"batch", "stored"}
  /\ goBack
  /\ UNCHANGED <<retryCount, env, auth, files, currentFileId, processingFileId,
                 processingFileIds, calls>>
  /\ UNCHANGED <<batches, toasts>>
  /\ BacksMore
  /\ UNCHANGED hook

\* EditorPage: onBack
EditorBack ==
  /\ Interactive
  /\ currentView = "editor"
  /\ currentFile # NULL
  /\ processingFileId' = IF processingFileId = currentFile THEN NULL ELSE processingFileId
  /\ goBack
  /\ UNCHANGED <<retryCount, env, auth, files, currentFileId, processingFileIds, calls>>
  /\ UNCHANGED <<batches, toasts>>
  /\ BacksMore
  /\ UNCHANGED hook

\* StoredFilesPage getExpiryStatus: msLeft <= 0
Expired(f) == f.expiryDate - now <= 0

\* the View button of a listed file: StoredFilesPage disables it for a file that is
\* not completed or is expired, BatchProcessingPage for one that is not completed
CanSelect(f) ==
  /\ f.status = "completed"
  /\ currentView = "stored" => ~Expired(f)

onSelectFile(i) ==
  /\ Interactive
  /\ currentView \in {"batch", "stored"}
  /\ CanSelect(files[i])
  /\ currentFileId' = files[i].id
  /\ navigateTo(currentView, "editor")
  /\ UNCHANGED <<retryCount, env, auth, files, processingFileId, processingFileIds, calls>>
  /\ UNCHANGED <<batches, toasts>>
  /\ BacksEnd
  /\ UNCHANGED hook

\* the status ProcessingScreenWithMessages is given
ProcessingStatus ==
  IF processingFileId \in Ids(files) THEN Find(files, processingFileId).status
  ELSE "processing"

\* ProcessingScreenWithMessages: Try Again (error) or Cancel Processing (processing)
onTimeout ==
  /\ Interactive
  /\ currentView = "processing"
  /\ processingFileId # NULL
  /\ ProcessingStatus \in {"processing", "error"}
  /\ processingFileId' = NULL
  /\ navigateTo(currentView, "upload")
  /\ UNCHANGED <<retryCount, env, auth, files, currentFileId, processingFileIds, calls>>
  /\ UNCHANGED <<batches, toasts>>
  /\ BacksEnd
  /\ UNCHANGED hook

\* ProcessingScreenWithMessages: View in Stored Files
ProcessingViewStored ==
  /\ Interactive
  /\ currentView = "processing"
  /\ processingFileId # NULL
  /\ ProcessingStatus = "processing"
  /\ processingFileId' = NULL
  /\ navigateTo(currentView, "stored")
  /\ UNCHANGED <<retryCount, env, auth, files, currentFileId, processingFileIds, calls>>
  /\ UNCHANGED <<batches, toasts>>
  /\ BacksEnd
  /\ UNCHANGED hook

\* ---- single upload
\* the id the backend gives the next job
FreshId == CHOOSE id \in JobIds : backend[id].st = "none" /\ \A j \in 1..(id-1) : backend[j].st # "none"

\* handleFilesUploaded(files, false) up to its await: POST /upload creates the job
handleFilesUploaded ==
  /\ Interactive
  /\ currentView = "upload"
  /\ \E id \in JobIds : backend[id].st = "none"
  /\ CanCall
  /\ backend' = [backend EXCEPT ![FreshId] = BackendCreate(FreshId)]
  /\ uploads' = uploads \cup {FreshId}
  /\ UNCHANGED <<obs, now, auth, nav, files, currentFileId, processingFileId,
                 processingFileIds, fetches, navTimers, sweeps, deletes>>
  /\ UNCHANGED <<batches, toasts>>
  /\ UNCHANGED hook

initialFile(id) ==
  [id |-> id, status |-> "processing", progress |-> 0, expiryDate |-> now + RetentionMs]

\* handleFilesUploaded after the await; its closure read currentView = "upload".
\* ok = FALSE: the call threw, the catch block only shows a toast
UploadDone(id, ok) ==
  /\ id \in uploads
  /\ uploads' = uploads \ {id}
  /\ IF ok
       THEN /\ processingFileIds' = processingFileIds \cup {id}
            /\ files' = Append(files, initialFile(id))
            /\ currentFileId' = id
            /\ processingFileId' = id
            /\ navigateTo("upload", "processing")
       ELSE UNCHANGED <<processingFileIds, files, currentFileId, processingFileId, nav>>
  /\ UNCHANGED <<retryCount, env, auth, fetches, navTimers, sweeps, deletes>>
  /\ UNCHANGED <<batches, toasts>>
  /\ BacksEnd
  /\ UNCHANGED hook

\* ---- batch upload
\* the ids the backend gives the n jobs of a batch
FreshIds(n) ==
  LET Free == {id \in JobIds : backend[id].st = "none"}
  IN {id \in Free : Cardinality({j \in Free : j < id}) < n}

\* handleFilesUploaded(files, true) up to its first await: POST /upload-batch
\* creates one job per file
handleBatchUploaded(n) ==
  /\ Interactive
  /\ currentView = "upload"
  /\ Cardinality(FreshIds(n)) = n
  /\ CanCall
  /\ backend' = [id \in JobIds |->
                   IF id \in FreshIds(n) THEN BackendCreate(id) ELSE backend[id]]
  /\ batches' = Append(batches, [ids |-> FreshIds(n), stage |-> "upload",
                                  snaps |-> [id \in FreshIds(n) |-> Pending]])
  /\ UNCHANGED <<obs, now, auth, nav, files, currentFileId, processingFileId,
                 processingFileIds, uploads, fetches, navTimers, sweeps, deletes, toasts>>
  /\ UNCHANGED hook

\* after the first await: the ids get pollers, and Promise.all asks for the status
\* of every job. ok = FALSE: api.uploadBatch threw, the catch block only shows a toast
BatchUploaded(b, ok) ==
  /\ b \in DOMAIN batches
  /\ batches[b].stage = "upload"
  /\ IF ok
       THEN /\ processingFileIds' = processingFileIds \cup batches[b].ids
            /\ batches' = [batches EXCEPT ![b].stage = "status"]
       ELSE /\ batches' = RemoveAt(batches, b)
            /\ UNCHANGED processingFileIds
  /\ UNCHANGED <<obs, env, auth, nav, files, currentFileId, processingFileId,
                 uploads, fetches, navTimers, sweeps, deletes, toasts>>
  /\ UNCHANGED hook

\* the backend answers the requests of Promise.all, or one of them fails
BatchServed(b, ok) ==
  /\ b \in DOMAIN batches
  /\ batches[b].stage = "status"
  /\ batches' = [batches EXCEPT
                   ![b].stage = "served",
                   ![b].snaps = [id \in batches[b].ids |->
                                   IF ok THEN Snapshot(id) ELSE Failure]]
  /\ UNCHANGED <<obs, env, auth, nav, files, currentFileId, processingFileId,
                 processingFileIds, uploads, fetches, navTimers, sweeps, deletes, toasts>>
  /\ UNCHANGED hook

\* the records of a batch, in the order of its ids
BatchFiles(ids, snaps) ==
  LET F[n \in 0..NumJobs] ==
        IF n = 0 THEN <<>>
        ELSE IF n \in ids THEN Append(F[n-1], convertApiFileToProcessedFile(n, snaps[n]))
        ELSE F[n-1]
  IN F[NumJobs]

\* after the second await; the closure read currentView = "upload". If a request
\* failed, the catch block only shows a toast
BatchDone(b) ==
  /\ b \in DOMAIN batches
  /\ batches[b].stage = "served"
  /\ batches' = RemoveAt(batches, b)
  /\ IF \A id \in batches[b].ids : batches[b].snaps[id].k = "ok"
       THEN /\ files' = files \o BatchFiles(batches[b].ids, batches[b].snaps)
            /\ navigateTo("upload", "batch")
       ELSE UNCHANGED <<files, nav>>
  /\ UNCHANGED <<retryCount, env, auth, currentFileId, processingFileId, processingFileIds,
                 uploads, fetches, navTimers, sweeps, deletes, toasts>>
  /\ BacksEnd
  /\ UNCHANGED hook

\* ---- the polling effect
\* pollFile up to its await, called by the effect when it (re)runs and by its
\* interval; the closure holds the processingFileId and currentView of the render
\* the effect ran in, which is the latest one (they are dependencies of the effect).
\* pollFile reads them only in processingFileId === apiFile.id (focused) and
\* currentView === 'processing' (onProcessing)
PollIssue(id) ==
  /\ id \in processingFileIds
  /\ CanCall
  /\ fetches' = Append(fetches, [id |-> id, focused |-> (processingFileId = id),
                                 onProcessing |-> (currentView = "processing"),
                                 snap |-> Pending, late |-> FALSE])
  /\ UNCHANGED <<obs, env, auth, nav, files, currentFileId, processingFileId,
                 processingFileIds, uploads, navTimers, sweeps, deletes>>
  /\ UNCHANGED <<batches, toasts>>
  /\ UNCHANGED hook

\* the backend answers the request, or the request fails
FetchServed(i, ok) ==
  /\ i \in DOMAIN fetches
  /\ fetches[i].snap.k = "pending"
  /\ fetches' = [fetches EXCEPT ![i].snap = IF ok THEN Snapshot(fetches[i].id) ELSE Failure]
  /\ UNCHANGED <<obs, env, auth, nav, files, currentFileId, processingFileId,
                 processingFileIds, uploads, navTimers, sweeps, deletes>>
  /\ UNCHANGED <<batches, toasts>>
  /\ UNCHANGED hook

\* variant of UpdateFileData that adds the record when the job is not in the list
UpdateFileDataUpsert(prev, id, apiFile) ==
  IF id \in Ids(prev)
    THEN [i \in DOMAIN prev |->
            IF prev[i].id = id THEN convertApiFileToProcessedFile(id, apiFile) ELSE prev[i]]
    ELSE Append(prev, convertApiFileToProcessedFile(id, apiFile))

\* setFiles(prev => prev.map(f => f.id === apiFile.id ? convert(apiFile) : f))
UpdateFileData(prev, id, apiFile) ==
  [i \in DOMAIN prev |->
     IF prev[i].id = id THEN convertApiFileToProcessedFile(id, apiFile) ELSE prev[i]]

\* observer: once the response of fetch i has been written to the record of its job,
\* the fetches of that job issued before it are late
MarkLate(i) ==
  [j \in DOMAIN fetches |->
     IF j < i /\ fetches[j].id = fetches[i].id /\ fetches[i].snap.k = "ok"
          /\ fetches[i].id \in Ids(files)
       THEN [fetches[j] EXCEPT !.late = TRUE]
       ELSE fetches[j]]

\* pollFile after its await
PollDelivered(i) ==
  /\ i \in DOMAIN fetches
  /\ fetches[i].snap.k # "pending"
  /\ LET f == fetches[i]
         apiFile == f.snap
     IN
     /\ fetches' = RemoveAt(MarkLate(i), i)
     /\ IF apiFile.k = "fail"
          THEN \* catch
               /\ processingFileIds' = processingFileIds \ {f.id}
               /\ retryCount' = [retryCount EXCEPT ![f.id] = IF @ < maxRetries THEN @ + 1 ELSE @]
               /\ UNCHANGED <<files, navTimers, processingFileId>>
          ELSE /\ files' = UpdateFileData(files, f.id, apiFile)
               /\ retryCount' = [retryCount EXCEPT ![f.id] = 0]
               /\ IF apiFile.status \in Terminal
                    THEN /\ processingFileIds' = processingFileIds \ {f.id}
                         /\ IF apiFile.status = "completed"
                              THEN /\ navTimers' =
                                        IF f.focused /\ f.onProcessing
                                          THEN navTimers \cup {f.id}
                                          ELSE navTimers
                                   /\ UNCHANGED processingFileId
                              ELSE /\ processingFileId' =
                                        IF f.focused THEN NULL
                                        ELSE processingFileId
                                   /\ UNCHANGED navTimers
                    ELSE UNCHANGED <<processingFileIds, navTimers, processingFileId>>
     /\ toasts' = IF /\ apiFile.k = "ok"
                     /\ apiFile.status = "completed"
                     /\ ~(f.focused /\ f.onProcessing)
                    THEN toasts \cup {f.id}
                    ELSE toasts
  /\ UNCHANGED <<env, auth, nav, currentFileId, uploads, sweeps, deletes, batches, backs>>
  /\ UNCHANGED hook

\* variant of AutoNavigate whose timer ends without navigating
AutoNavigateDrop(id) ==
  /\ id \in navTimers
  /\ navTimers' = navTimers \ {id}
  /\ UNCHANGED <<obs, env, auth, nav, files, currentFileId, processingFileId,
                 processingFileIds, uploads, fetches, sweeps, deletes, batches, toasts>>
  /\ UNCHANGED hook

\* the setTimeout callback of pollFile
AutoNavigate(id) ==
  /\ id \in navTimers
  /\ navTimers' = navTimers \ {id}
  /\ currentFileId' = id
  /\ currentView' = "editor"
  /\ UNCHANGED <<retryCount, env, auth, previousView, files, processingFileId, processingFileIds,
                 uploads, fetches, sweeps, deletes>>
  /\ UNCHANGED <<batches, toasts>>
  /\ BacksEnd
  /\ UNCHANGED hook

\* the View action of the toast pollFile shows when the job completed while the user
\* was elsewhere; the click closes the toast
ToastView(id) ==
  /\ Interactive
  /\ id \in toasts
  /\ toasts' = toasts \ {id}
  /\ currentFileId' = id
  /\ currentView' = "editor"
  /\ UNCHANGED <<retryCount, env, auth, previousView, files, processingFileId, processingFileIds,
                 calls, batches>>
  /\ BacksEnd
  /\ UNCHANGED hook

\* the toast closes by itself
ToastDismiss(id) ==
  /\ id \in toasts
  /\ toasts' = toasts \ {id}
  /\ UNCHANGED <<obs, env, auth, nav, files, currentFileId, processingFileId,
                 processingFileIds, calls, batches>>
  /\ UNCHANGED hook

\* ---- useAutoCleanup
\* variant of IsExpired that leaves a file alone at the instant of its expiry
IsExpiredStrict(n, f) == n > f.expiryDate

\* variant of IsExpired that takes a file one clock step before its expiry
IsExpiredEarly(n, f) == n + ClockStep >= f.expiryDate

\* checkExpiredFiles: now >= expiryDate
IsExpired(n, f) == n >= f.expiryDate

\* the files of the captured list the loop calls api.deleteFile for, in order
ExpiredIds(fs, n) ==
  LET E == SelectSeq(fs, LAMBDA f : IsExpired(n, f))
  IN [i \in DOMAIN E |-> E[i].id]

\* checkExpiredFiles starts (the effect ran, or its interval fired); it reads the
\* files of the latest render and calls the onFileDeleted of that render, whose
\* closure holds currentFileId. A call that finds nothing expired ends at once.
checkExpiredFiles ==
  /\ CanCall
  /\ ExpiredIds(files, now) # <<>>
  /\ sweeps' = Append(sweeps, [ids |-> ExpiredIds(files, now), pos |-> 1,
                               currentFileId |-> currentFileId])
  /\ UNCHANGED <<obs, env, auth, nav, files, currentFileId, processingFileId,
                 processingFileIds, uploads, fetches, navTimers, deletes>>
  /\ UNCHANGED <<batches, toasts>>
  /\ UNCHANGED hook

\* DELETE /files/{id}
BackendDelete(id) == [backend EXCEPT ![id] = Gone]

\* the callback given to useAutoCleanup, from a render with currentFileId = cfid
onFileDeleted(cfid, fileId) ==
  /\ files' = Filter(files, fileId)
  /\ IF cfid = fileId
       THEN currentFileId' = NULL /\ currentView' = "upload"
       ELSE UNCHANGED <<currentFileId, currentView>>

\* variant of NextSweeps in which a delete that threw ends the loop
NextSweepsAbort(s, ok) ==
  IF ok /\ sweeps[s].pos < Len(sweeps[s].ids)
    THEN [sweeps EXCEPT ![s].pos = @ + 1]
    ELSE RemoveAt(sweeps, s)

\* the for loop after the try/catch of one file: on to the next file, or the end
NextSweeps(s, ok) ==
  IF sweeps[s].pos < Len(sweeps[s].ids)
    THEN [sweeps EXCEPT ![s].pos = @ + 1]
    ELSE RemoveAt(sweeps, s)

\* the sweep's api.deleteFile call ends (ok: deleted; ~ok: it threw) and the loop
\* goes on to its next expired file
SweepDelete(s, ok) ==
  /\ s \in DOMAIN sweeps
  /\ LET sw == sweeps[s]
         id == sw.ids[sw.pos]
     IN
     /\ IF ok
          THEN /\ backend' = BackendDelete(id)
               /\ onFileDeleted(sw.currentFileId, id)
          ELSE UNCHANGED <<backend, files, currentFileId, currentView>>
     /\ sweeps' = NextSweeps(s, ok)
  /\ UNCHANGED <<retryCount, now, auth, previousView, processingFileId, processingFileIds,
                 uploads, fetches, navTimers, deletes>>
  /\ UNCHANGED <<batches, toasts>>
  /\ BacksEnd
  /\ UNCHANGED hook

\* ---- manual delete
\* deleteFile up to its await (the confirm button of the delete dialog)
deleteFile(i) ==
  /\ Interactive
  /\ currentView \in {"batch", "stored"}
  /\ i \in DOMAIN files
  /\ CanCall
  /\ deletes' = Append(deletes, [id |-> files[i].id, currentFileId |-> currentFileId])
  /\ UNCHANGED <<obs, env, auth, nav, files, currentFileId, processingFileId,
                 processingFileIds, uploads, fetches, navTimers, sweeps>>
  /\ UNCHANGED <<batches, toasts>>
  /\ UNCHANGED hook

\* deleteFile after its await
DeleteDone(d, ok) ==
  /\ d \in DOMAIN deletes
  /\ deletes' = RemoveAt(deletes, d)
  /\ IF ok
       THEN /\ backend' = BackendDelete(deletes[d].id)
            /\ files' = Filter(files, deletes[d].id)
            /\ IF deletes[d].currentFileId = deletes[d].id
                 THEN currentFileId' = NULL /\ currentView' = "upload"
                 ELSE UNCHANGED <<currentFileId, currentView>>
       ELSE UNCHANGED <<backend, files, currentFileId, currentView>>
  /\ UNCHANGED <<retryCount, now, auth, previousView, processingFileId, processingFileIds,
                 uploads, fetches, navTimers, sweeps>>
  /\ UNCHANGED <<batches, toasts>>
  /\ BacksEnd
  /\ UNCHANGED hook

\* ---- useFilePolling (hooks/useFilePolling.ts), for a component that renders it
\* with a fileId prop; the callbacks onUpdate, onComplete and onError belong to the
\* caller and are not modelled
\* the call in flight when the effect is replaced keeps the retryCount of its closure
Orphaned ==
  [i \in DOMAIN polls |->
     IF polls[i].own
       THEN [polls[i] EXCEPT !.own = FALSE, !.retryCount = hookRetryCount]
       ELSE polls[i]]

\* a render with another fileId: the cleanup of the old effect clears the interval,
\* then the new effect runs: it returns at once without a fileId, else it calls
\* pollFileStatus (which returns at once when isPollingRef.current is set) and
\* stores its interval in intervalRef
HookEffect(id) ==
  /\ id # hookFileId
  /\ hookFileId' = id
  /\ hookRetryCount' = 0
  /\ hookStopped' = FALSE
  /\ intervalRef' = id
  /\ IF id # NULL /\ ~isPollingRef
       THEN /\ isPollingRef' = TRUE
            /\ polls' = Append(Orphaned, [fileId |-> id, own |-> TRUE, retryCount |-> 0,
                                          snap |-> Pending])
       ELSE /\ polls' = Orphaned
            /\ UNCHANGED isPollingRef
  /\ UNCHANGED <<backend, app>>

\* the interval fires: pollFileStatus up to its await; a call that finds
\* isPollingRef.current set returns at once
HookInterval ==
  /\ intervalRef # NULL
  /\ ~isPollingRef
  /\ isPollingRef' = TRUE
  /\ polls' = Append(polls, [fileId |-> intervalRef, own |-> TRUE, retryCount |-> 0,
                             snap |-> Pending])
  /\ UNCHANGED <<backend, app, hookFileId, intervalRef, hookRetryCount, hookStopped>>

\* the backend answers the request, or the request fails
HookServed(i, ok) ==
  /\ i \in DOMAIN polls
  /\ polls[i].snap.k = "pending"
  /\ polls' = [polls EXCEPT ![i].snap = IF ok THEN Snapshot(polls[i].fileId) ELSE Failure]
  /\ UNCHANGED <<backend, app, hookFileId, intervalRef, isPollingRef, hookRetryCount,
                 hookStopped>>

\* pollFileStatus after its await: try, catch and finally
HookDelivered(i) ==
  /\ i \in DOMAIN polls
  /\ polls[i].snap.k # "pending"
  /\ LET p == polls[i]
         rc == IF p.snap.k = "fail"
                 THEN (IF p.own THEN hookRetryCount ELSE p.retryCount) + 1
                 ELSE 0
         stop == IF p.snap.k = "fail" THEN rc >= maxRetries
                 ELSE p.snap.status \in Terminal
     IN
     /\ hookRetryCount' = IF p.own THEN rc ELSE hookRetryCount
     /\ intervalRef' = IF stop THEN NULL ELSE intervalRef
     /\ hookStopped' = (hookStopped \/ (p.own /\ stop))
  /\ isPollingRef' = FALSE
  /\ polls' = RemoveAt(polls, i)
  /\ UNCHANGED <<backend, app, hookFileId>>

\* ---------------------------------------------------------------- Spec
\* the callbacks that start no call and can run without an upload
StoredSteps ==
  \/ ClockTick
  \/ \E id \in JobIds : BackendAdvance(id)
  \/ Login
  \/ \E ok \in BOOLEAN : initializeApp(ok)
  \/ onViewStored
  \/ onBack
  \/ EditorBack
  \/ \E i \in DOMAIN files : onSelectFile(i)
  \/ \E i \in DOMAIN fetches, ok \in BOOLEAN : FetchServed(i, ok)
  \/ \E i \in DOMAIN fetches : PollDelivered(i)
  \/ \E s \in DOMAIN sweeps, ok \in BOOLEAN : SweepDelete(s, ok)
  \/ \E d \in DOMAIN deletes, ok \in BOOLEAN : DeleteDone(d, ok)
  \/ \E id \in JobIds : ToastView(id)
  \/ \E id \in JobIds : ToastDismiss(id)

\* the callbacks that start no call and follow an upload
UploadSteps ==
  \/ onTimeout
  \/ ProcessingViewStored
  \/ \E id \in JobIds, ok \in BOOLEAN : UploadDone(id, ok)
  \/ \E id \in JobIds : AutoNavigate(id)
  \/ \E b \in DOMAIN batches, ok \in BOOLEAN : BatchUploaded(b, ok)
  \/ \E b \in DOMAIN batches, ok \in BOOLEAN : BatchServed(b, ok)
  \/ \E b \in DOMAIN batches : BatchDone(b)

\* the callbacks that start no call
Steps == StoredSteps \/ UploadSteps

\* the whole program
Next ==
  \/ Steps
  \/ handleLogout
  \/ handleFilesUploaded
  \/ \E n \in 1..MaxBatch : handleBatchUploaded(n)
  \/ \E id \in JobIds : PollIssue(id)
  \/ checkExpiredFiles
  \/ \E i \in DOMAIN files : deleteFile(i)

Spec == Init /\ [][Next]_vars

\* one session (no logout) in which the backend holds the first job only
OneJob == \A id \in JobIds : id # 1 => backend[id].st = "none"
NextOneJob ==
  \/ Steps
  \/ handleFilesUploaded /\ OneJob'
  \/ \E n \in 1..MaxBatch : handleBatchUploaded(n) /\ OneJob'
  \/ \E id \in JobIds : PollIssue(id)
  \/ checkExpiredFiles
  \/ \E i \in DOMAIN files : deleteFile(i)

InitOneJob == Init /\ OneJob
SpecOneJob == InitOneJob /\ [][NextOneJob]_vars

\* the same, with the timers of pollFile firing
SpecOneJobFair == SpecOneJob /\ \A id \in JobIds : WF_vars(AutoNavigate(id))

\* one session (no logout) in which at most SerialCalls calls are awaited at once
Serial == InFlight <= SerialCalls
NextSerial ==
  \/ Steps
  \/ handleFilesUploaded /\ Serial'
  \/ \E n \in 1..MaxBatch : handleBatchUploaded(n) /\ Serial'
  \/ \E id \in JobIds : PollIssue(id) /\ Serial'
  \/ checkExpiredFiles /\ Serial'
  \/ \E i \in DOMAIN files : deleteFile(i) /\ Serial'

SpecSerial == Init /\ [][NextSerial]_vars

\* a session (no logout) in which the user uploads nothing: the jobs are those the
\* backend holds at the start; calls one at a time
NextStored ==
  \/ StoredSteps
  \/ \E id \in JobIds : PollIssue(id) /\ Serial'
  \/ checkExpiredFiles /\ Serial'
  \/ \E i \in DOMAIN files : deleteFile(i) /\ Serial'

SpecStored == Init /\ [][NextStored]_vars

\* a pending call ends: its await resumes
CallEnds ==
  \/ \E id \in JobIds, ok \in BOOLEAN : UploadDone(id, ok)
  \/ \E i \in DOMAIN fetches, ok \in BOOLEAN : FetchServed(i, ok)
  \/ \E i \in DOMAIN fetches : PollDelivered(i)
  \/ \E s \in DOMAIN sweeps, ok \in BOOLEAN : SweepDelete(s, ok)
  \/ \E d \in DOMAIN deletes, ok \in BOOLEAN : DeleteDone(d, ok)
  \/ \E b \in DOMAIN batches, ok \in BOOLEAN : BatchUploaded(b, ok)
  \/ \E b \in DOMAIN batches, ok \in BOOLEAN : BatchServed(b, ok)
  \/ \E b \in DOMAIN batches : BatchDone(b)

\* a sweep's delete of job id succeeds
SweepDeleteOk(id) ==
  \E s \in DOMAIN sweeps : sweeps[s].ids[sweeps[s].pos] = id /\ SweepDelete(s, TRUE)

\* SpecStored with the sweeper's interval firing, every call ending (the api client
\* has a timeout), and the delete of a job succeeding if it is tried again and again
SpecStoredFair ==
  /\ SpecStored
  /\ SF_vars(checkExpiredFiles /\ Serial')
  /\ WF_vars(CallEnds)
  /\ \A id \in JobIds : SF_vars(SweepDeleteOk(id))

\* sessions with logout and a new login, one job, calls one at a time
NextRelogin ==
  \/ Steps
  \/ handleLogout
  \/ handleFilesUploaded /\ OneJob' /\ Serial'
  \/ \E n \in 1..MaxBatch : handleBatchUploaded(n) /\ OneJob' /\ Serial'
  \/ \E id \in JobIds : PollIssue(id) /\ Serial'
  \/ checkExpiredFiles /\ Serial'
  \/ \E i \in DOMAIN files : deleteFile(i) /\ Serial'

SpecRelogin == InitOneJob /\ [][NextRelogin]_vars

\* a component that renders useFilePolling, with the backend's jobs of earlier page
\* loads
NextHook ==
  \/ \E id \in JobIds : BackendAdvance(id)
  \/ \E id \in JobIds \cup {NULL} : HookEffect(id)
  \/ HookInterval
  \/ \E i \in 1..MaxCalls, ok \in BOOLEAN : HookServed(i, ok)
  \/ \E i \in 1..MaxCalls : HookDelivered(i)

SpecHook == Init /\ [][NextHook]_vars

\* --------------------------------------------------------- properties
FetchesFor(id) == Cardinality({i \in DOMAIN fetches : fetches[i].id = id})
\* the job was deleted in the backend and is not in the Registry
Removed(id) == backend[id].st = "deleted" /\ id \notin Ids(files)

\* C1: for every job, at most one status fetch is in flight at any instant.
C1_OneFetchPerJob == \A id \in JobIds : FetchesFor(id) <= 1

\* C2: once a job's record has a terminal status, no step changes that status.
C2_TerminalIsFinal ==
  [][\A i \in DOMAIN files : \A j \in DOMAIN files' :
       (files[i].status \in Terminal /\ files'[j].id = files[i].id)
         => files'[j].status = files[i].status]_vars

\* C3: while a job's status stays processing, no step lowers its progress.
C3_ProgressMonotone ==
  [][\A i \in DOMAIN files : \A j \in DOMAIN files' :
       (files'[j].id = files[i].id /\ files[i].status = "processing"
          /\ files'[j].status = "processing")
         => files'[j].progress >= files[i].progress]_vars

\* C4: a sweep takes exactly the jobs of the Registry with now >= expiresAt; when one
\* of its delete calls ends, the job it was for leaves the Registry if and only if
\* the delete succeeded, no other job leaves, and a job that leaves has
\* now >= expiresAt in its record.
C4_EvictionCorrect ==
  [][/\ checkExpiredFiles =>
          \A i \in DOMAIN files :
            (now >= files[i].expiryDate) <=>
              (\E k \in DOMAIN sweeps'[Len(sweeps')].ids :
                 sweeps'[Len(sweeps')].ids[k] = files[i].id)
     /\ \A s \in DOMAIN sweeps : \A ok \in BOOLEAN :
          SweepDelete(s, ok) =>
            LET id == sweeps[s].ids[sweeps[s].pos] IN
            /\ ok => id \notin Ids(files')
            /\ ~ok => files' = files
            /\ \A i \in DOMAIN files :
                 files[i].id \notin Ids(files') =>
                   files[i].id = id /\ ok /\ now >= files[i].expiryDate]_vars

\* a sweep has deleted its first expired job and is at its second
C4_Witness ==
  \E s \in DOMAIN sweeps :
    /\ sweeps[s].pos > 1
    /\ Removed(sweeps[s].ids[1])

\* C5: when a sweep's delete fails, the Registry is unchanged and the sweep goes on
\* to its next expired job; a job a sweep failed to delete is still expired in the
\* Registry, and every sweep that starts takes all expired jobs of the Registry.
C5_FailedDeleteRetained ==
  [][/\ \A s \in DOMAIN sweeps :
          SweepDelete(s, FALSE) =>
            /\ files' = files
            /\ sweeps[s].pos < Len(sweeps[s].ids) =>
                 /\ Len(sweeps') = Len(sweeps)
                 /\ sweeps'[s].ids = sweeps[s].ids
                 /\ sweeps'[s].pos = sweeps[s].pos + 1
            /\ \A i \in DOMAIN files' :
                 files'[i].id = sweeps[s].ids[sweeps[s].pos] => IsExpired(now', files'[i])
     /\ checkExpiredFiles =>
          \A i \in DOMAIN files :
            IsExpired(now, files[i]) =>
              \E k \in DOMAIN sweeps'[Len(sweeps')].ids :
                sweeps'[Len(sweeps')].ids[k] = files[i].id]_vars

\* a sweep failed to delete its first expired job, which is still in the Registry,
\* and is at its second
C5_Witness ==
  \E s \in DOMAIN sweeps :
    /\ sweeps[s].pos > 1
    /\ sweeps[s].ids[1] \in Ids(files)
    /\ backend[sweeps[s].ids[1]].st # "deleted"

\* C6: a failed status fetch stops the job's poller only when it is the 3rd failure
\* in a row, and after 3 failures in a row the job has status error, has no poller
\* and gets no further fetch.
C6_RetryCeiling ==
  [][\A id \in JobIds :
       /\ (retryCount'[id] > retryCount[id] /\ id \in processingFileIds
            /\ id \notin processingFileIds')
           => retryCount'[id] >= maxRetries
       /\ retryCount'[id] >= maxRetries =>
            /\ id \notin processingFileIds'
            /\ \A i \in DOMAIN files' : files'[i].id = id => files'[i].status = "error"]_vars

\* C7: a successful fetch that follows fewer than 3 failures in a row resets the retry
\* count and leaves the job processing (unless the snapshot is terminal) with its
\* poller running.
C7_TransientFailureInvisible ==
  [][\A i \in DOMAIN fetches :
       (/\ PollDelivered(i)
        /\ fetches[i].snap.k = "ok"
        /\ fetches[i].snap.status = "processing"
        /\ retryCount[fetches[i].id] \in 1..(maxRetries - 1)
        /\ fetches[i].id \in Ids(files))
       => /\ retryCount'[fetches[i].id] = 0
          /\ fetches[i].id \in processingFileIds'
          /\ Find(files', fetches[i].id).status = "processing"]_vars

\* C8: a job of the Registry has a poller if and only if its status is processing.
C8_PollerIffProcessing ==
  \A i \in DOMAIN files :
    (files[i].id \in processingFileIds) <=> (files[i].status = "processing")

\* C9: a status response delivered for a job that is not in the Registry leaves the
\* Registry as it is.
C9_LateResponseDiscarded ==
  [][\A i \in DOMAIN fetches :
       (PollDelivered(i) /\ fetches[i].id \notin Ids(files)) => files' = files]_vars

\* the backend answered a fetch with the job's record, then the job was deleted and
\* removed from the Registry; the answer is still to be delivered
C9_Witness ==
  \E i \in DOMAIN fetches :
    /\ fetches[i].snap.k = "ok"
    /\ Removed(fetches[i].id)

\* C10: no status fetch is issued for a job that has been removed from the Registry.
C10_NoFetchAfterRemoval ==
  [][\A id \in JobIds : Removed(id) => ~PollIssue(id)]_vars

\* the job the user is looking at: the file of the editor, or the job of the
\* processing screen
Viewed(id) ==
  \/ currentView = "editor" /\ currentFileId = id
  \/ currentView = "processing" /\ processingFileId = id

\* C11: when a sweep's delete of the job being viewed succeeds, the view becomes
\* upload and neither currentFileId nor processingFileId names the job any more.
C11_FocusedEvictionResets ==
  [][\A s \in DOMAIN sweeps :
       LET id == sweeps[s].ids[sweeps[s].pos] IN
       (SweepDelete(s, TRUE) /\ id \in Ids(files) /\ Viewed(id))
         => /\ currentView' = "upload"
            /\ currentFileId' # id
            /\ processingFileId' # id]_vars

\* C12: currentFileId and processingFileId are null or the id of a job of the Registry.
C12_ViewRefsPresent ==
  /\ currentFileId \in Ids(files) \cup {NULL}
  /\ processingFileId \in Ids(files) \cup {NULL}

\* the response delivered by PollDelivered(i) says completed and the job is the one
\* of the processing screen the user is on
CompletesInView(i) ==
  /\ fetches[i].snap.k = "ok"
  /\ fetches[i].snap.status = "completed"
  /\ currentView = "processing"
  /\ processingFileId = fetches[i].id

\* C13: when the completion of the job of the processing screen is delivered, the view
\* does not change in that step and the 2 s timer is started; the processing screen
\* of a job turns into the editor of that job only when the timer fires; and a started
\* timer leads to the editor with that job as current file.
C13_GraceDelayThenEditor ==
  /\ [][\A i \in DOMAIN fetches :
          (PollDelivered(i) /\ CompletesInView(i))
            => /\ UNCHANGED <<currentView, currentFileId>>
               /\ fetches[i].id \in navTimers']_vars
  /\ [][(/\ currentView = "processing"
         /\ processingFileId # NULL
         /\ currentView' = "editor"
         /\ currentFileId' = processingFileId)
          => AutoNavigate(processingFileId)]_vars
  /\ \A id \in JobIds :
       (id \in navTimers) ~> (currentView = "editor" /\ currentFileId = id)

\* the completion of the job of the processing screen was delivered and its timer runs
C13_Witness ==
  \E id \in JobIds :
    /\ id \in navTimers
    /\ currentView = "processing"
    /\ processingFileId = id
    /\ id \in Ids(files) /\ Find(files, id).status = "completed"

\* C14: the timer of a completion moves the view to the editor only if the user is
\* still on the processing screen of that job; and a completion delivered while the
\* user is elsewhere starts no timer, leaves the view alone and shows the toast.
C14_NoForcedNavigation ==
  [][/\ \A id \in JobIds :
          AutoNavigate(id) => (currentView = "processing" /\ processingFileId = id)
     /\ \A i \in DOMAIN fetches :
          (/\ PollDelivered(i)
           /\ fetches[i].snap.k = "ok"
           /\ fetches[i].snap.status = "completed"
           /\ ~(currentView = "processing" /\ processingFileId = fetches[i].id))
          => /\ fetches[i].id \notin navTimers'
             /\ fetches[i].id \in toasts'
             /\ UNCHANGED <<currentView, previousView>>]_vars

\* the step is a callback that calls navigateTo(v)
CallsNavigateTo(v) ==
  \/ v = "stored" /\ (onViewStored \/ ProcessingViewStored)
  \/ v = "editor" /\ \E i \in DOMAIN files : onSelectFile(i)
  \/ v = "upload" /\ onTimeout
  \/ v = "processing" /\ \E id \in JobIds : UploadDone(id, TRUE)
  \/ v = "batch" /\ \E b \in DOMAIN batches :
                      /\ BatchDone(b)
                      /\ \A id \in batches[b].ids : batches[b].snaps[id].k = "ok"

\* C15: a callback that calls navigateTo(v) with v # currentView sets previousView to
\* the old currentView and currentView to v; with v = currentView it changes neither.
C15_NavigateTo ==
  [][\A v \in Views :
       CallsNavigateTo(v) =>
         IF currentView # v
           THEN previousView' = currentView /\ currentView' = v
           ELSE UNCHANGED <<currentView, previousView>>]_vars

\* the step is a callback that calls goBack()
CallsGoBack == onBack \/ EditorBack

\* C16: goBack() sets currentView to previousView when previousView # currentView and
\* to upload otherwise, and leaves previousView = upload.
C16_GoBack ==
  [][CallsGoBack =>
       /\ currentView' = IF previousView # currentView THEN previousView ELSE "upload"
       /\ previousView' = "upload"]_vars

\* the stored page was reached from the processing screen: goBack() can run and its
\* target is not the upload page
C16_Witness ==
  /\ Interactive
  /\ currentView = "stored"
  /\ previousView = "processing"

\* C17: no step changes the expiryDate of a record of the Registry.
C17_ExpiryFixed ==
  [][\A i \in DOMAIN files : \A j \in DOMAIN files' :
       files'[j].id = files[i].id => files'[j].expiryDate = files[i].expiryDate]_vars

\* C18: the Registry holds at most one record per job id.
C18_UniqueIds ==
  \A i, j \in DOMAIN files : files[i].id = files[j].id => i = j

\* the polling effect runs again after the step: one of its dependencies changed, so
\* its cleanup clears the interval of every job and every job of processingFileIds
\* gets a pollFile() call and a new interval
PollingEffectRuns ==
  <<processingFileIds, processingFileId, currentView>>' #
    <<processingFileIds, processingFileId, currentView>>

\* the records of job id in a list
RecordsOf(fs, id) == SelectSeq(fs, LAMBDA f : f.id = id)

\* C19: the delivery of a response (failure, terminal or not) for one job leaves every
\* other job's record, poller and pending fetches as they are and does not restart
\* the poller of any other job; a failed delete of a sweep does not keep the sweep
\* from going on to its other expired jobs.
C19_Isolation ==
  [][/\ \A i \in DOMAIN fetches :
          PollDelivered(i) =>
            \A other \in JobIds \ {fetches[i].id} :
              /\ RecordsOf(files', other) = RecordsOf(files, other)
              /\ (other \in processingFileIds') <=> (other \in processingFileIds)
              /\ SelectSeq(fetches', LAMBDA f : f.id = other)
                   = SelectSeq(fetches, LAMBDA f : f.id = other)
              /\ other \in processingFileIds => ~PollingEffectRuns
     /\ \A s \in DOMAIN sweeps :
          (SweepDelete(s, FALSE) /\ sweeps[s].pos < Len(sweeps[s].ids))
            => /\ s \in DOMAIN sweeps'
               /\ sweeps'[s].ids = sweeps[s].ids
               /\ sweeps'[s].pos = sweeps[s].pos + 1]_vars

\* C20: a job of the Registry whose expiry has passed is eventually not in the
\* Registry, when sweeps keep starting, calls end, and the delete of the job succeeds
\* if it is tried again and again.
C20_EventuallyEvicted ==
  \A id \in JobIds :
    (\E i \in DOMAIN files : files[i].id = id /\ now >= files[i].expiryDate)
      ~> (id \notin Ids(files))

\* an expired job is in the Registry and a sweep failed to delete it
C20_Witness ==
  \E s \in DOMAIN sweeps :
    /\ sweeps[s].pos > 1
    /\ \E i \in DOMAIN files :
         files[i].id = sweeps[s].ids[1] /\ now >= files[i].expiryDate

\* C21: pressing Back in the editor never shows the processing screen: a step of the
\* editor's onBack ends with currentView other than processing.
C21_EditorBackNotProcessing == [][EditorBack => currentView' # "processing"]_vars

\* C22: no click on View in the stored-files or batch list opens in the editor a job
\* whose retention has run out (now >= expiresAt).
C22_ExpiredNotOpened ==
  [][\A i \in 1..NumJobs :
       (i <= Len(files) /\ onSelectFile(i)) => now < files[i].expiryDate]_vars

\* C24: a navigation timer that fires for a job no longer in the Registry leaves
\* currentFileId and currentView alone.
C24_TimerObservesRemoval ==
  [][\A id \in JobIds :
       (AutoNavigate(id) /\ id \notin Ids(files)) =>
          UNCHANGED <<currentFileId, currentView>>]_vars

\* C27: the view has something to render: the processing view has a processingFileId
\* and the editor view has a currentFileId that names a job of the Registry.
C27_ViewRenders ==
  /\ currentView = "processing" => processingFileId # NULL
  /\ currentView = "editor" => currentFileId \in Ids(files)

\* C26: deleteFile leaves the Registry alone until its backend delete has ended; a
\* failed delete changes neither the Registry nor currentFileId nor currentView; a
\* successful one removes the job and, when the job is the focused one, clears
\* currentFileId and shows the upload view.
C26_ManualDelete ==
  [][/\ \A i \in 1..NumJobs : deleteFile(i) => UNCHANGED files
     /\ \A d \in 1..MaxCalls : \A ok \in BOOLEAN :
          (d <= Len(deletes) /\ DeleteDone(d, ok)) =>
             IF ok
               THEN /\ deletes[d].id \notin Ids(files')
                    /\ currentFileId = deletes[d].id =>
                         (currentFileId' = NULL /\ currentView' = "upload")
               ELSE UNCHANGED <<files, currentFileId, currentView>>]_vars

\* the sweeps whose loop is waiting for the delete of job id
SweepsAt(id) == {s \in DOMAIN sweeps : sweeps[s].ids[sweeps[s].pos] = id}

\* C29: at most one sweep is waiting for the delete of a given job.
C29_OneDeletePerJob == \A id \in JobIds : Cardinality(SweepsAt(id)) <= 1

\* C30: when a batch registers its jobs, a job none of whose status fetches has
\* failed is not registered as processing without a poller: the terminal status a
\* fetch brought before the registration is not lost.
C30_BatchJobsPolled ==
  [][\A b \in 1..MaxCalls :
       (b <= Len(batches) /\ BatchDone(b)) =>
          \A id \in batches[b].ids \cap Ids(files') :
             (Find(files', id).status = "processing" /\ retryCount[id] = 0)
                => id \in processingFileIds']_vars

\* C25: the snapshots of a job are written in the order their fetches were issued: the
\* response of a fetch issued before one whose response has already been written does
\* not change the Registry.
C25_WritesInIssueOrder ==
  [][\A i \in 1..MaxCalls :
       (i <= Len(fetches) /\ PollDelivered(i) /\ fetches[i].late) => files' = files]_vars

\* C23: goBack is idempotent: a goBack called right after another goBack changes
\* neither currentView nor previousView.
C23_GoBackIdempotent == [][(CallsGoBack /\ backs > 0) => UNCHANGED nav]_vars

\* C23 (amended): a goBack called right after another goBack is not a no-op: the first
\* one left previousView = upload and a view with a Back button, and the second one
\* moves from that view to upload.
C23_SecondGoBackToUpload ==
  [][(CallsGoBack /\ backs > 0) =>
        /\ previousView = "upload"
        /\ currentView # "upload"
        /\ currentView' = "upload"
        /\ previousView' = "upload"]_vars

\* a second goBack in a row has run
C23_Witness == backs = 2 /\ currentView = "upload" /\ previousView = "upload"

\* the effect of a new fileId, run while a fetch is in flight, issues its first fetch
HookFirstFetch ==
  \A id \in JobIds :
     (HookEffect(id) /\ isPollingRef) =>
        \E i \in DOMAIN polls' : polls'[i].fileId = id /\ polls'[i].own

\* the response of a fetch of a replaced effect leaves the interval alone
HookLateResponse ==
  \A i \in 1..MaxCalls :
     (i <= Len(polls) /\ HookDelivered(i) /\ ~polls[i].own) => intervalRef' = intervalRef

\* the file of the latest render has an interval until its own fetches stop it
HookKeepsPolling == (hookFileId # NULL /\ ~hookStopped) => intervalRef = hookFileId

\* C28: when useFilePolling's fileId changes while a fetch is in flight, the new effect
\* issues its immediate first fetch, the late response of the old fetch does not
\* clear the new interval, and the new file has an interval until one of its own
\* fetches returns a terminal status or its retries reach maxRetries.
C28_PollerSwitch == [][HookFirstFetch /\ HookLateResponse /\ HookKeepsPolling']_vars

====
